---- MODULE Spec2Model ----
(***************************************************************************)
(* Model of src/main.py: the catalog chat bot.  Text is modelled character *)
(* by character: a Python str is a sequence of one-character strings, so   *)
(* that normalisation, prefix tests and substring tests are computed the   *)
(* way the code computes them.                                             *)
(***************************************************************************)
EXTENDS Integers, Sequences, FiniteSets, TLC

VARIABLES
    SHEETS_CSV_URL,   \* main.py:11, "" or the configured URL
    CATALOG_CACHE,    \* main.py:14, [df, ts]
    now,              \* the value time.time() returns
    call,             \* what the last load_catalog call did
    update,           \* the inbound message text of the handler under way
    handled,          \* what the last handle_message call did
    arg,              \* the argument of the function applied
    res,              \* its result
    pc                \* position of the caller

vars == <<SHEETS_CSV_URL, CATALOG_CACHE, now, call, update, handled, arg, res, pc>>

\* -------------------------------------------------------------------------
\* Python str primitives

WhitespaceChars == {" ", "\t", "\n"}

LowerLetters ==
    {"a", "b", "c", "d", "e", "f", "g", "h", "i", "j", "k", "l", "m", "n", "o",
     "p", "q", "r", "s", "t", "u", "v", "w", "x", "y", "z",
     "á", "ã", "ç", "é", "í", "ó"}

UpperLetters == {"A", "C", "J", "P", "Q", "R", "S", "V", "Á", "Ç"}

DigitChars == {"0", "1", "2", "3", "4", "5", "6", "7", "8", "9"}

\* \w of the re module on str patterns: letters (accented ones too), digits, "_"
IsWordChar(c) == c \in LowerLetters \cup UpperLetters \cup DigitChars \cup {"_"}

IsSpace(c) == c \in WhitespaceChars

\* str.lower() on one character
lower_char(c) ==
    CASE c = "A" -> "a" [] c = "C" -> "c" [] c = "J" -> "j" [] c = "P" -> "p"
      [] c = "Q" -> "q" [] c = "R" -> "r" [] c = "S" -> "s" [] c = "V" -> "v"
      [] c = "Á" -> "á" [] c = "Ç" -> "ç"
      [] OTHER -> c

lower(s) == [i \in 1..Len(s) |-> lower_char(s[i])]

RECURSIVE lstrip(_)
lstrip(s) == IF s # <<>> /\ IsSpace(Head(s)) THEN lstrip(Tail(s)) ELSE s

RECURSIVE rstrip(_)
rstrip(s) ==
    IF s # <<>> /\ IsSpace(s[Len(s)]) THEN rstrip(SubSeq(s, 1, Len(s) - 1)) ELSE s

strip(s) == rstrip(lstrip(s))

startswith(s, p) == Len(p) <= Len(s) /\ SubSeq(s, 1, Len(p)) = p

\* `p in s` on strings
contains(s, p) ==
    \E i \in 0..(Len(s) - Len(p)) : SubSeq(s, i + 1, i + Len(p)) = p

RECURSIVE take_token(_)
take_token(s) ==
    IF s = <<>> \/ IsSpace(Head(s)) THEN <<>> ELSE <<Head(s)>> \o take_token(Tail(s))

\* str.split() without argument: the maximal runs of non-whitespace
RECURSIVE split(_)
split(s) ==
    LET t == lstrip(s)
        w == take_token(t)
    IN  IF t = <<>> THEN <<>>
        ELSE <<w>> \o split(SubSeq(t, Len(w) + 1, Len(t)))

\* sep.join(parts)
RECURSIVE join(_, _)
join(sep, parts) ==
    IF parts = <<>> THEN <<>>
    ELSE IF Len(parts) = 1 THEN parts[1]
    ELSE parts[1] \o sep \o join(sep, Tail(parts))

\* s.replace(" ", "_")
replace_space(s) == [i \in 1..Len(s) |-> IF s[i] = " " THEN "_" ELSE s[i]]

\* -------------------------------------------------------------------------
\* normalize_text

\* re.sub(r"[^\w\s|]", " ", s)
sub_punct(s) ==
    [i \in 1..Len(s) |->
        IF IsWordChar(s[i]) \/ IsSpace(s[i]) \/ s[i] = "|" THEN s[i] ELSE " "]

\* re.sub(r"\s+", " ", s)
RECURSIVE sub_spaces(_)
sub_spaces(s) ==
    IF s = <<>> THEN <<>>
    ELSE IF IsSpace(Head(s)) THEN <<" ">> \o sub_spaces(lstrip(s))
    ELSE <<Head(s)>> \o sub_spaces(Tail(s))

normalize_text(s) == sub_spaces(sub_punct(strip(lower(s))))

\* -------------------------------------------------------------------------
\* Values shared by the specifications

\* an optional value: <<>> is None, <<v>> is v
None == <<>>
Some(v) == <<v>>

Strings(alphabet, n) == UNION {[1..k -> alphabet] : k \in 0..n}

ConfiguredUrl == "https://sheets/catalog.csv"

\* The module state right after import with the URL configured (main.py:11-14)
ModuleInit ==
    /\ SHEETS_CSV_URL = ConfiguredUrl
    /\ CATALOG_CACHE = [df |-> None, ts |-> 0]
    /\ now = 0
    /\ call = None

NoHandler == update = None /\ handled = None

\* -------------------------------------------------------------------------
\* normalize_text applied, then applied to its own output

MaxLen == 4

NormAlphabet == {"a", "A", " ", "!", "|"}

InitNorm ==
    /\ ModuleInit /\ NoHandler
    /\ arg \in Strings(NormAlphabet, MaxLen)
    /\ res = <<>>
    /\ pc = "start"

NormalizeOnce ==
    /\ pc = "start"
    /\ res' = normalize_text(arg)
    /\ pc' = "once"
    /\ UNCHANGED <<SHEETS_CSV_URL, CATALOG_CACHE, now, call, update, handled, arg>>

NormalizeAgain ==
    /\ pc = "once"
    /\ arg' = res
    /\ res' = normalize_text(res)
    /\ pc' = "twice"
    /\ UNCHANGED <<SHEETS_CSV_URL, CATALOG_CACHE, now, call, update, handled>>

NextNorm == NormalizeOnce \/ NormalizeAgain

SpecNorm == InitNorm /\ [][NextNorm]_vars

\* C9: normalize_text is idempotent: normalising a normalised string
\* (arg, after the second application) gives that string back (res).
C9_Idempotent == pc = "twice" => res = arg

\* -------------------------------------------------------------------------
\* detect_intent

IntentLabels == {"PRICE", "STOCK", "CARE", "SUGGEST", "GENERAL"}

PriceKeywords == {<<"q", "u", "a", "n", "t", "o">>, <<"p", "r", "e", "ç", "o">>, <<"p", "r", "e", "c", "o">>, <<"v", "a", "l", "o", "r">>, <<"c", "u", "s", "t", "a">>}

StockKeywords == {<<"t", "e", "m">>, <<"e", "s", "t", "o", "q", "u", "e">>, <<"d", "i", "s", "p", "o", "n", "i", "v", "e", "l">>, <<"d", "i", "s", "p", "o", "n", "í", "v", "e", "l">>}

CareKeywords ==
    {<<"c", "o", "m", "o", " ", "c", "u", "i", "d", "a", "r">>, <<"c", "u", "i", "d", "a", "d", "o", "s">>, <<"r", "e", "g", "a">>, <<"l", "u", "z">>, <<"s", "o", "l">>, <<"s", "o", "m", "b", "r", "a">>, <<"a", "d", "u", "b", "o">>}

SuggestKeywords ==
    {<<"m", "e", " ", "i", "n", "d", "i", "c", "a">>, <<"m", "e", " ", "s", "u", "g", "e", "r", "e">>, <<"s", "u", "g", "e", "r", "e">>, <<"r", "e", "c", "o", "m", "e", "n", "d", "a">>, <<"p", "r", "a">>, <<"p", "a", "r", "a">>}

\* any(k in m for k in keywords)
any_in(m, keywords) == \E k \in keywords : contains(m, k)

\* a faulty variant of detect_intent: the care test moved before the price test
detect_intent_care_first(msg) ==
    LET m == normalize_text(msg)
    IN  IF any_in(m, CareKeywords) THEN "CARE"
        ELSE IF any_in(m, PriceKeywords) THEN "PRICE"
        ELSE IF any_in(m, StockKeywords) THEN "STOCK"
        ELSE IF any_in(m, SuggestKeywords) THEN "SUGGEST"
        ELSE "GENERAL"

detect_intent(msg) ==
    LET m == normalize_text(msg)
    IN  IF any_in(m, PriceKeywords) THEN "PRICE"
        ELSE IF any_in(m, StockKeywords) THEN "STOCK"
        ELSE IF any_in(m, CareKeywords) THEN "CARE"
        ELSE IF any_in(m, SuggestKeywords) THEN "SUGGEST"
        ELSE "GENERAL"

\* -------------------------------------------------------------------------
\* extract_query

StopWords ==
    {<<"q", "u", "a", "n", "t", "o">>, <<"p", "r", "e", "c", "o">>, <<"p", "r", "e", "ç", "o">>, <<"v", "a", "l", "o", "r">>, <<"c", "u", "s", "t", "a">>, <<"t", "a">>, <<"t", "á">>,
     <<"t", "e", "m">>, <<"e", "s", "t", "o", "q", "u", "e">>, <<"d", "i", "s", "p", "o", "n", "i", "v", "e", "l">>, <<"d", "i", "s", "p", "o", "n", "í", "v", "e", "l">>,
     <<"c", "o", "m", "o">>, <<"c", "u", "i", "d", "a", "r">>, <<"c", "u", "i", "d", "a", "d", "o", "s">>, <<"m", "e">>, <<"i", "n", "d", "i", "c", "a">>, <<"s", "u", "g", "e", "r", "e">>, <<"r", "e", "c", "o", "m", "e", "n", "d", "a">>,
     <<"u", "m", "a">>, <<"u", "m">>, <<"d", "e">>, <<"d", "a">>, <<"d", "o">>, <<"p", "r", "a">>, <<"p", "a", "r", "a">>, <<"n", "o">>, <<"n", "a">>}

extract_query(msg) ==
    LET m == normalize_text(msg)
        keep(t) == t \notin StopWords
    IN  strip(join(<<" ">>, SelectSeq(split(m), keep)))

\* -------------------------------------------------------------------------
\* detect_intent applied to messages made of a few words

MaxWords == 3

MessageWords ==
    {<<"Q", "u", "a", "n", "t", "o">>, <<"c", "u", "s", "t", "a">>, <<"a", " ", "r", "e", "g", "a", "?">>, <<"t", "e", "m">>, <<"s", "i", "s", "t", "e", "m", "a">>, <<"J", "i", "b", "o", "i", "a">>, <<"p", "a", "r", "a">>,
     <<"l", "u", "z">>}

Messages == {join(<<" ">>, ws) : ws \in Strings(MessageWords, MaxWords)}

InitIntent ==
    /\ ModuleInit /\ NoHandler
    /\ arg \in Messages
    /\ res = ""
    /\ pc = "start"

DetectIntent ==
    /\ pc = "start"
    /\ res' = detect_intent(arg)
    /\ pc' = "done"
    /\ UNCHANGED <<SHEETS_CSV_URL, CATALOG_CACHE, now, call, update, handled, arg>>

NextIntent == DetectIntent

SpecIntent == InitIntent /\ [][NextIntent]_vars

\* C8: detect_intent is a total first-match cascade over substring containment
\* in the normalized message: PRICE if a price keyword occurs, else STOCK if an
\* availability keyword occurs, else CARE, else SUGGEST, else GENERAL; a message
\* with both a price and a care keyword is PRICE.
C8_OrderedCascade ==
    pc = "done" =>
        LET m == normalize_text(arg)
            price == any_in(m, PriceKeywords)
            stock == any_in(m, StockKeywords)
            care == any_in(m, CareKeywords)
            suggest == any_in(m, SuggestKeywords)
        IN  /\ res \in IntentLabels
            /\ price => res = "PRICE"
            /\ (~price /\ stock) => res = "STOCK"
            /\ (~price /\ ~stock /\ care) => res = "CARE"
            /\ (~price /\ ~stock /\ ~care /\ suggest) => res = "SUGGEST"
            /\ (~price /\ ~stock /\ ~care /\ ~suggest) => res = "GENERAL"

\* a message with a price keyword and a care keyword, classified
C8_Witness ==
    /\ pc = "done"
    /\ any_in(normalize_text(arg), PriceKeywords)
    /\ any_in(normalize_text(arg), CareKeywords)
    /\ res = "PRICE"

\* -------------------------------------------------------------------------
\* Catalog rows.  A cell of the DataFrame is a string or NaN (an empty CSV
\* cell); str() of NaN is "nan".

Cell(s) == [nan |-> FALSE, s |-> s]
NaN == [nan |-> TRUE, s |-> <<>>]

\* str(x) and Series.astype(str)
py_str(cell) == IF cell.nan THEN <<"n", "a", "n">> ELSE cell.s

\* the columns load_catalog guarantees, named as line 41 leaves them
ExpectedColumns ==
    {"nome_popular", "preco", "estoque", "vaso", "luz", "rega", "pets",
     "observacoes", "apelidos"}

\* lines 47-49 on one row: a column the sheet lacks holds ""
fill_expected(row) ==
    [c \in ExpectedColumns \cup DOMAIN row |->
        IF c \in DOMAIN row THEN row[c] ELSE Cell(<<>>)]

\* df["__search"] of one row, lines 52-54
search_text(row) ==
    normalize_text(py_str(row.nome_popular) \o <<" ", "|", " ">> \o py_str(row.apelidos))

add_search(row) ==
    [c \in DOMAIN row \cup {"search"} |->
        IF c = "search" THEN search_text(row) ELSE row[c]]

\* the DataFrame load_catalog builds from the parsed rows of the sheet
build_df(sheet) == [i \in 1..Len(sheet) |-> add_search(fill_expected(sheet[i]))]

\* -------------------------------------------------------------------------
\* find_product.  Rows are named by their position (df.iloc); prod = 0 is None.
\* wratio[i] is the score fuzz.WRatio gives the query against choices[i].

EXTRACT_LIMIT == 5

SCORE_MIN == 75

Indices(n) == [i \in 1..n |-> i]

\* a faulty variant of name_starts: the name is not normalized before the test
name_starts_raw(row, q) == startswith(py_str(row.nome_popular), q)

\* normalize_text(x).startswith(q) on a row's nome_popular
name_starts(row, q) == startswith(normalize_text(py_str(row.nome_popular)), q)

\* the rows of df whose name starts with q, in row order
starts_rows(df, q) ==
    LET hit(i) == name_starts(df[i], q)
    IN  SelectSeq(Indices(Len(df)), hit)

\* i comes before j in process.extract's result
ranks_before(wratio, i, j) ==
    wratio[i] > wratio[j] \/ (wratio[i] = wratio[j] /\ i < j)

RECURSIVE ranked(_, _)
ranked(wratio, left) ==
    IF left = {} THEN <<>>
    ELSE LET best == CHOOSE i \in left :
                        \A j \in left \ {i} : ranks_before(wratio, i, j)
         IN  <<best>> \o ranked(wratio, left \ {best})

\* process.extract(q, choices, scorer=fuzz.WRatio, limit=5): (score, idx) pairs
extract(wratio, limit) ==
    LET all == ranked(wratio, DOMAIN wratio)
        n == IF Len(all) < limit THEN Len(all) ELSE limit
    IN  [k \in 1..n |-> [idx |-> all[k], score |-> wratio[all[k]]]]

\* a faulty variant of score_kept: the threshold is exclusive
score_kept_strict(score) == score > SCORE_MIN

score_kept(score) == score >= SCORE_MIN

\* the fuzzy stage, lines 104-115
fuzzy_stage(wratio) ==
    LET matches == extract(wratio, EXTRACT_LIMIT)
        kept(m) == score_kept(m.score)
        top == SelectSeq(matches, kept)
    IN  IF Len(top) = 1 THEN [prod |-> top[1].idx, top |-> top, extract_called |-> TRUE]
        ELSE [prod |-> 0, top |-> top, extract_called |-> TRUE]

\* one query token with a single trailing "s" removed
singular(t) == IF t # <<>> /\ t[Len(t)] = "s" THEN SubSeq(t, 1, Len(t) - 1) ELSE t

\* the rows whose normalized name contains every query token, singularized
token_rows(df, q) ==
    LET toks == split(q)
        hit(i) == \A k \in 1..Len(toks) :
                     contains(normalize_text(py_str(df[i].nome_popular)),
                              singular(toks[k]))
    IN  SelectSeq(Indices(Len(df)), hit)

\* a faulty variant of find_product: a token-subset stage between the prefix stage
\* and the fuzzy stage
find_product_token_stage(df, query, wratio) ==
    LET q == normalize_text(query)
        starts == starts_rows(df, q)
        subset == token_rows(df, q)
        several(rows) == [k \in 1..Len(rows) |-> [idx |-> rows[k], score |-> 90]]
    IN  IF q = <<>> THEN [prod |-> 0, top |-> <<>>, extract_called |-> FALSE]
        ELSE IF Len(starts) = 1
        THEN [prod |-> starts[1], top |-> <<[idx |-> starts[1], score |-> 100]>>,
              extract_called |-> FALSE]
        ELSE IF Len(starts) > 1
        THEN [prod |-> 0, top |-> several(starts), extract_called |-> FALSE]
        ELSE IF Len(subset) = 1
        THEN [prod |-> subset[1], top |-> <<[idx |-> subset[1], score |-> 100]>>,
              extract_called |-> FALSE]
        ELSE IF Len(subset) > 1
        THEN [prod |-> 0, top |-> several(subset), extract_called |-> FALSE]
        ELSE fuzzy_stage(wratio)

find_product(df, query, wratio) ==
    LET q == normalize_text(query)
        starts == starts_rows(df, q)
    IN  IF q = <<>> THEN [prod |-> 0, top |-> <<>>, extract_called |-> FALSE]
        ELSE IF Len(starts) = 1
        THEN [prod |-> starts[1], top |-> <<[idx |-> starts[1], score |-> 100]>>,
              extract_called |-> FALSE]
        ELSE IF Len(starts) > 1
        THEN [prod |-> 0,
              top |-> [k \in 1..Len(starts) |-> [idx |-> starts[k], score |-> 90]],
              extract_called |-> FALSE]
        ELSE fuzzy_stage(wratio)

\* -------------------------------------------------------------------------
\* find_product applied to small catalogs and to catalogs longer than the
\* extract limit

MaxRows == 3

FuzzyRows == 6

FindNames == {<<"J", "i", "b", "o", "i", "a">>, <<"J", "i", "b", "o", "i", "a", " ", "V", "e", "r", "d", "e">>, <<"S", "a", "m", "a", "m", "b", "a", "i", "a">>}

FindQueries == {<<"J", "i", "b", "o", "i", "a">>, <<"s", "a", "m", "a", "m", "b">>, <<"v", "e", "r", "d", "e", "s">>, <<"r", "o", "s", "a">>, <<>>}

DigitSeq == <<"1", "2", "3", "4", "5", "6", "7", "8", "9">>

\* a sheet with only the name column
NameSheet(names) == [i \in 1..Len(names) |-> [nome_popular |-> Cell(names[i])]]

Numbered(n) == [i \in 1..n |-> <<"p", "l", "a", "n", "t", "a", " ">> \o <<DigitSeq[i]>>]

FindInputs ==
    UNION {
        [df : {build_df(NameSheet(names))}, query : FindQueries,
         wratio : [1..Len(names) -> {74, 80}]]
        : names \in Strings(FindNames, MaxRows)}

FuzzyInputs ==
    UNION {
        [df : {build_df(NameSheet(Numbered(n)))}, query : {<<"z", "a", "m", "i", "o", "c", "u", "l", "c", "a">>},
         wratio : [1..n -> {74, 75, 100}]]
        : n \in 1..FuzzyRows}

NoResult == [prod |-> 0, top |-> <<>>, extract_called |-> FALSE]

InitFind ==
    /\ ModuleInit /\ NoHandler
    /\ arg \in FindInputs \cup FuzzyInputs
    /\ res = NoResult
    /\ pc = "start"

FindProduct ==
    /\ pc = "start"
    /\ res' = find_product(arg.df, arg.query, arg.wratio)
    /\ pc' = "done"
    /\ UNCHANGED <<SHEETS_CSV_URL, CATALOG_CACHE, now, call, update, handled, arg>>

NextFind == FindProduct

SpecFind == InitFind /\ [][NextFind]_vars

\* the rows whose normalized name starts with the normalized query
PrefixSet ==
    {i \in 1..Len(arg.df) :
        startswith(normalize_text(py_str(arg.df[i].nome_popular)),
                   normalize_text(arg.query))}

TopIdx == {res.top[k].idx : k \in 1..Len(res.top)}

InRowOrder == \A k \in 1..(Len(res.top) - 1) : res.top[k].idx < res.top[k + 1].idx

\* C5: with a non-empty normalized query and at least one row whose normalized
\* name starts with it, the prefix stage decides: one such row is the single
\* match with score 100; several give no single product and exactly those rows,
\* each with score 90, in catalog row order; the fuzzy scorer is not called.
C5_PrefixDecides ==
    (pc = "done" /\ normalize_text(arg.query) # <<>> /\ PrefixSet # {}) =>
        /\ ~res.extract_called
        /\ TopIdx = PrefixSet
        /\ Len(res.top) = Cardinality(PrefixSet)
        /\ InRowOrder
        /\ Cardinality(PrefixSet) = 1 =>
              /\ res.prod \in PrefixSet
              /\ res.top[1].score = 100
        /\ Cardinality(PrefixSet) > 1 =>
              /\ res.prod = 0
              /\ \A k \in 1..Len(res.top) : res.top[k].score = 90

\* two rows start with the query and both are returned with 90
C5_Witness ==
    /\ pc = "done"
    /\ Cardinality(PrefixSet) = 2
    /\ Len(arg.df) = 3
    /\ res.prod = 0
    /\ Len(res.top) = 2

\* the rows whose normalized name contains every query token, singularized
TokenSet ==
    LET rows == token_rows(arg.df, normalize_text(arg.query))
    IN  {rows[k] : k \in 1..Len(rows)}

\* the place of row i in the scorer's order: 1 for the best
Rank(i) ==
    1 + Cardinality({j \in DOMAIN arg.wratio :
                        \/ arg.wratio[j] > arg.wratio[i]
                        \/ arg.wratio[j] = arg.wratio[i] /\ j < i})

\* the rows the fuzzy stage keeps
FuzzyKept == {i \in DOMAIN arg.wratio : Rank(i) <= 5 /\ arg.wratio[i] >= 75}

PrefixMissed == pc = "done" /\ normalize_text(arg.query) # <<>> /\ PrefixSet = {}

C7_FuzzyStage ==
    (pc = "done" /\ res.extract_called) =>
        /\ TopIdx = FuzzyKept
        /\ Len(res.top) = Cardinality(FuzzyKept)
        /\ \A k \in 1..Len(res.top) : res.top[k].score = arg.wratio[res.top[k].idx]
        /\ \A k \in 1..(Len(res.top) - 1) :
              \/ res.top[k].score > res.top[k + 1].score
              \/ /\ res.top[k].score = res.top[k + 1].score
                 /\ res.top[k].idx < res.top[k + 1].idx
        /\ Cardinality(FuzzyKept) = 0 => res.prod = 0 /\ res.top = <<>>
        /\ Cardinality(FuzzyKept) = 1 => res.prod \in FuzzyKept
        /\ Cardinality(FuzzyKept) > 1 => res.prod = 0

\* more than five rows score at least 75, one scoring exactly 75 is among the
\* five returned and another is cut by the limit
C7_Witness ==
    /\ pc = "done"
    /\ res.extract_called
    /\ Cardinality({i \in DOMAIN arg.wratio : arg.wratio[i] >= 75}) > 5
    /\ Len(res.top) = 5
    /\ res.top[5].score = 75
    /\ res.top[1].score = 100

\* -------------------------------------------------------------------------
\* load_catalog

CACHE_TTL_SECONDS == 60

\* a faulty variant of cache_fresh: the age test is inclusive
cache_fresh_inclusive(cache, t) ==
    cache.df # None /\ t - cache.ts <= CACHE_TTL_SECONDS

\* line 28
cache_fresh(cache, t) ==
    cache.df # None /\ t - cache.ts < CACHE_TTL_SECONDS

\* What the sheet's server does when asked: status "ok" with the parsed rows,
\* or the step that raises: requests.get, raise_for_status or pd.read_csv.
FetchFailures == {"ConnectionError", "HTTPError", "ParserError"}

\* load_catalog called at time t; answer is used only if a request is made.
\* ret is the DataFrame returned, exc the exception raised ("" for none),
\* fetches the number of requests.get calls.
load_catalog(cache, url, t, answer) ==
    IF cache_fresh(cache, t)
    THEN [cache |-> cache, ret |-> cache.df, exc |-> "", fetches |-> 0]
    ELSE IF url = ""
    THEN [cache |-> cache, ret |-> None, exc |-> "ValueError", fetches |-> 0]
    ELSE IF answer.status # "ok"
    THEN [cache |-> cache, ret |-> None, exc |-> answer.status, fetches |-> 1]
    ELSE LET df == build_df(answer.sheet)
         IN  [cache |-> [df |-> Some(df), ts |-> t], ret |-> Some(df), exc |-> "",
              fetches |-> 1]

\* -------------------------------------------------------------------------
\* load_catalog called again and again while the clock and the sheet change

ClockValues == {0, 1, 59, 60, 61, 119, 120, 121}

SheetA ==
    <<[nome_popular |-> Cell(<<"J", "i", "b", "o", "i", "a">>), preco |-> Cell(<<"3", "5">>),
       luz |-> Cell(<<"M", "e", "i", "a", "-", "s", "o", "m", "b", "r", "a">>), pets |-> Cell(<<"T", "ó", "x", "i", "c", "a">>),
       apelidos |-> Cell(<<"J", "i", "b", "o", "i", "a", " ", "V", "e", "r", "d", "e">>)],
      [nome_popular |-> Cell(<<"J", "i", "b", "o", "i", "a", " ", "V", "e", "r", "d", "e">>), preco |-> Cell(<<"4", "0">>),
       luz |-> Cell(<<"S", "o", "m", "b", "r", "a">>), pets |-> NaN, apelidos |-> NaN],
      [nome_popular |-> Cell(<<"R", "o", "s", "a">>), preco |-> NaN,
       luz |-> Cell(<<"S", "o", "l", " ", "p", "l", "e", "n", "o">>), pets |-> Cell(<<"o", "k">>), apelidos |-> NaN]>>

SheetB ==
    <<[nome_popular |-> Cell(<<"S", "a", "m", "a", "m", "b", "a", "i", "a">>), preco |-> Cell(<<"2", "5">>),
       luz |-> Cell(<<"L", "u", "z", " ", "i", "n", "d", "i", "r", "e", "t", "a">>), rega |-> Cell(<<"2", "x", " ", "p", "o", "r", " ", "s", "e", "m", "a", "n", "a">>),
       pets |-> Cell(<<"S", "i", "m">>)]>>

Sheets == {SheetA, SheetB}

Answers ==
    [status : {"ok"}, sheet : Sheets] \cup [status : FetchFailures, sheet : {<<>>}]

NoAnswer == [status |-> "none", sheet |-> <<>>]

InitCache ==
    /\ SHEETS_CSV_URL \in {"", ConfiguredUrl}
    /\ CATALOG_CACHE = [df |-> None, ts |-> 0]
    /\ now \in ClockValues
    /\ call = None
    /\ NoHandler
    /\ arg = <<>> /\ res = <<>> /\ pc = "idle"

\* time.time() may return any value at the next call
ClockMoves ==
    /\ now' \in ClockValues \ {now}
    /\ UNCHANGED <<SHEETS_CSV_URL, CATALOG_CACHE, call, update, handled, arg, res, pc>>

LoadCatalog ==
    \E answer \in Answers :
        LET r == load_catalog(CATALOG_CACHE, SHEETS_CSV_URL, now, answer)
        IN  /\ CATALOG_CACHE' = r.cache
            /\ call' = Some([at |-> now, before |-> CATALOG_CACHE,
                             answer |-> IF r.fetches = 0 THEN NoAnswer ELSE answer,
                             fetches |-> r.fetches, ret |-> r.ret, exc |-> r.exc])
            /\ UNCHANGED <<SHEETS_CSV_URL, now, update, handled, arg, res, pc>>

NextCache == ClockMoves \/ LoadCatalog

SpecCache == InitCache /\ [][NextCache]_vars

\* the last call found a catalog cached less than 60 seconds before
CallWasFresh == call[1].before.df # None /\ call[1].at - call[1].before.ts < 60

CallFetchedOk ==
    /\ call[1].fetches = 1
    /\ call[1].answer.status = "ok"
    /\ call[1].exc = ""
    /\ call[1].ret = Some(build_df(call[1].answer.sheet))
    /\ CATALOG_CACHE = [df |-> call[1].ret, ts |-> call[1].at]

CallServedCache ==
    /\ call[1].fetches = 0
    /\ call[1].exc = ""
    /\ call[1].ret = call[1].before.df
    /\ CATALOG_CACHE = call[1].before

C2_StaleServed ==
    (call # None /\ call[1].fetches = 1 /\ call[1].answer.status # "ok") =>
        /\ CATALOG_CACHE = call[1].before
        /\ call[1].before.df # None =>
              call[1].ret = call[1].before.df /\ call[1].exc = ""

\* -------------------------------------------------------------------------
\* format_product_answer.  The reply is kept in its parts: the name in the
\* head, the labelled lines in order, the customer phrase, the note.

\* str(prod.get(column, "")).strip()
field_text(prod, column) == strip(py_str(prod[column]))

\* a faulty variant of in_price_section: stock questions get the price too
in_price_section_wide(intent) == intent \in {"PRICE", "STOCK", "GENERAL"}

\* line 131
in_price_section(intent) == intent \in {"PRICE", "GENERAL"}

\* line 136
in_stock_section(intent) == intent \in {"STOCK", "GENERAL"}

\* line 139
in_care_section(intent) == intent \in {"CARE", "GENERAL"}

\* lines.append(...) when the section applies and the text is not empty
line_if(shown, column, text) ==
    IF shown /\ text # <<>> THEN <<[field |-> column, text |-> text]>> ELSE <<>>

format_product_answer(prod, intent) ==
    LET nome == field_text(prod, "nome_popular")
        preco == field_text(prod, "preco")
        estoque == field_text(prod, "estoque")
        vaso == field_text(prod, "vaso")
        luz == field_text(prod, "luz")
        rega == field_text(prod, "rega")
        pets == field_text(prod, "pets")
        obs == field_text(prod, "observacoes")
    IN  [nome |-> nome,
         lines |->
            line_if(in_price_section(intent), "preco", preco)
            \o line_if(in_price_section(intent), "vaso", vaso)
            \o line_if(in_stock_section(intent), "estoque", estoque)
            \o line_if(in_care_section(intent), "luz", luz)
            \o line_if(in_care_section(intent), "rega", rega)
            \o line_if(in_care_section(intent), "pets", pets),
         frase |->
            IF luz # <<>> \/ rega # <<>>
            THEN Some([nome |-> nome,
                       luz |-> IF luz # <<>> THEN luz ELSE <<"b", "o", "a", " ", "c", "l", "a", "r", "i", "d", "a", "d", "e">>,
                       rega |-> IF rega # <<>> THEN rega ELSE <<"m", "o", "d", "e", "r", "a", "d", "a">>])
            ELSE None,
         obs |-> IF obs # <<>> /\ intent # "PRICE" THEN Some(obs) ELSE None]

\* -------------------------------------------------------------------------
\* format_product_answer applied to rows whose cells are "", NaN or a text
\* with spaces around it

FieldSamples ==
    [preco |-> <<" ", "3", "5", ",", "9", "0", " ">>, estoque |-> <<" ", "4", " ">>, vaso |-> <<" ", "P", "1", "5", " ">>, luz |-> <<" ", "s", "o", "l", " ", "p", "l", "e", "n", "o", " ">>,
     rega |-> <<" ", "2", "x", " ", "p", "o", "r", " ", "s", "e", "m", "a", "n", "a", " ">>, pets |-> <<" ", "o", "k", " ">>, observacoes |-> <<" ", "c", "h", "e", "g", "o", "u", " ", "h", "o", "j", "e", " ">>]

CellChoices(column) == {Cell(<<>>), NaN, Cell(FieldSamples[column])}

FormatRows ==
    {add_search(fill_expected(r)) :
        r \in [nome_popular : {Cell(<<"J", "i", "b", "o", "i", "a">>)}, preco : CellChoices("preco"),
               estoque : CellChoices("estoque"), vaso : CellChoices("vaso"),
               luz : CellChoices("luz"), rega : CellChoices("rega"),
               pets : CellChoices("pets"), observacoes : CellChoices("observacoes")]}

NoReply == [nome |-> <<>>, lines |-> <<>>, frase |-> None, obs |-> None]

InitFormat ==
    /\ ModuleInit /\ NoHandler
    /\ arg \in [prod : FormatRows, intent : IntentLabels]
    /\ res = NoReply
    /\ pc = "start"

FormatProductAnswer ==
    /\ pc = "start"
    /\ res' = format_product_answer(arg.prod, arg.intent)
    /\ pc' = "done"
    /\ UNCHANGED <<SHEETS_CSV_URL, CATALOG_CACHE, now, call, update, handled, arg>>

NextFormat == FormatProductAnswer

SpecFormat == InitFormat /\ [][NextFormat]_vars

\* the intents for which a field belongs to the reply
AllowedIntents(column) ==
    CASE column \in {"preco", "vaso"} -> {"PRICE", "GENERAL"}
      [] column = "estoque" -> {"STOCK", "GENERAL"}
      [] column \in {"luz", "rega", "pets"} -> {"CARE", "GENERAL"}
      [] column = "observacoes" -> IntentLabels \ {"PRICE"}

GatedColumns == {"preco", "vaso", "estoque", "luz", "rega", "pets", "observacoes"}

\* the text of the row's cell, as the reply would show it
Shown(column) == strip(py_str(arg.prod[column]))

HasLine(column) ==
    \E k \in 1..Len(res.lines) :
        res.lines[k].field = column /\ res.lines[k].text = Shown(column)

InPhrase(column) ==
    /\ res.frase # None
    /\ Shown(column) # <<>>
    /\ \/ column = "luz" /\ res.frase[1].luz = Shown("luz")
       \/ column = "rega" /\ res.frase[1].rega = Shown("rega")

InNote(column) == column = "observacoes" /\ res.obs = Some(Shown(column))

\* the field's value appears somewhere in the reply
Appears(column) == HasLine(column) \/ InPhrase(column) \/ InNote(column)

\* C10 as stated: a field's value appears in the reply only for the intents
\* of its set (price and pot: PRICE, GENERAL; stock: STOCK, GENERAL; light,
\* watering, pets: CARE, GENERAL; notes: any but PRICE), an empty value is
\* omitted, and no value outside the intent's set appears anywhere.
C10_IntentGated ==
    pc = "done" =>
        \A column \in GatedColumns :
            Appears(column) <=>
                (arg.intent \in AllowedIntents(column) /\ Shown(column) # <<>>)

\* C10 amended: the labelled lines and the note are selected by intent as
\* stated and an empty text (after str and strip) is omitted; the customer
\* phrase is added for every intent when light or watering is not empty, and
\* carries both (a default text for an empty one), so light and watering
\* also appear in replies whose intent is not CARE or GENERAL.
C10_LinesGated ==
    pc = "done" =>
        /\ \A column \in GatedColumns \ {"observacoes"} :
              HasLine(column) <=>
                  (arg.intent \in AllowedIntents(column) /\ Shown(column) # <<>>)
        /\ \A k \in 1..Len(res.lines) :
              /\ res.lines[k].field \in GatedColumns \ {"observacoes"}
              /\ res.lines[k].text = Shown(res.lines[k].field)
        /\ InNote("observacoes") <=>
              (arg.intent # "PRICE" /\ Shown("observacoes") # <<>>)
        /\ res.obs # None => InNote("observacoes")
        /\ res.frase # None <=> (Shown("luz") # <<>> \/ Shown("rega") # <<>>)
        /\ \A column \in {"luz", "rega"} :
              InPhrase(column) <=> Shown(column) # <<>>

\* a price reply that has no light line but names the light in the phrase
C10_Witness ==
    /\ pc = "done"
    /\ arg.intent = "PRICE"
    /\ Shown("luz") # <<>>
    /\ Shown("preco") # <<>>
    /\ HasLine("preco")
    /\ ~HasLine("luz")
    /\ InPhrase("luz")

\* -------------------------------------------------------------------------
\* handle_message.  A reply is [kind, ...]; replies is the sequence of
\* reply_text calls made, exc the exception the handler ends with ("" for
\* none), fetches the requests made.

\* Series.str.contains("a|b|c", case=False, na=False) on astype(str)
str_contains(cell, alternatives) ==
    \E alt \in alternatives : contains(lower(py_str(cell)), lower(alt))

\* first n elements (DataFrame.head, list slicing)
head(s, n) == SubSeq(s, 1, IF Len(s) < n THEN Len(s) ELSE n)

\* lines 181-208: the rows suggested, their filters and the reply
suggest_reply(df, msg) ==
    LET m == normalize_text(msg)
        by_shade(i) ==
            (contains(m, <<"p", "o", "u", "c", "a", " ", "l", "u", "z">>) \/ contains(m, <<"s", "o", "m", "b", "r", "a">>))
                => str_contains(df[i].luz, {<<"s", "o", "m", "b", "r", "a">>, <<"i", "n", "d", "i", "r", "e", "t", "a">>, <<"p", "o", "u", "c", "a">>})
        by_sun(i) == contains(m, <<"s", "o", "l">>) => str_contains(df[i].luz, {<<"s", "o", "l">>})
        by_pet(i) ==
            contains(m, <<"p", "e", "t">>)
                => str_contains(df[i].pets, {<<"o", "k">>, <<"s", "i", "m">>, <<"n", "ã", "o", " ", "t", "ó", "x">>})
        keep(i) == by_shade(i) /\ by_sun(i) /\ by_pet(i)
        subset == head(SelectSeq(Indices(Len(df)), keep), 3)
    IN  IF Len(subset) = 0 THEN [kind |-> "no_suggestion", rows |-> <<>>]
        ELSE [kind |-> "suggestions", rows |-> subset]

\* lines 171-232: the handler from the read of the message text on
handle_message_body(text, cache, url, t, answer, scorer) ==
    LET intent == detect_intent(text)
        query == extract_query(text)
        loaded == load_catalog(cache, url, t, answer)
        df == loaded.ret[1]
        found == find_product(df, query, head(scorer, Len(df)))
        done(replies, exc) ==
            [cache |-> loaded.cache, replies |-> replies, exc |-> exc,
             fetches |-> loaded.fetches]
    IN  IF text = <<>>
        THEN [cache |-> cache, replies |-> <<>>, exc |-> "", fetches |-> 0]
        ELSE IF loaded.exc # "" THEN done(<<>>, loaded.exc)
        ELSE IF intent = "SUGGEST" THEN done(<<suggest_reply(df, text)>>, "")
        ELSE IF found.prod = 0 THEN done(<<[kind |-> "not_found", rows |-> <<>>]>>, "")
        ELSE IF Len(found.top) >= 2 /\ found.top[1].score - found.top[2].score < 5
        THEN done(<<[kind |-> "disambiguation",
                     rows |-> [k \in 1..Len(head(found.top, 3)) |-> found.top[k].idx]]>>,
                  "")
        ELSE done(<<[kind |-> "product", rows |-> <<found.prod>>,
                     answer |-> format_product_answer(df[found.prod], intent)]>>, "")

\* the names bound when the body of handle_message starts: its parameters
LocalsAtEntry == {"update", "context"}

\* the names handle_message assigns, which makes them local to it
LocalsAssigned == {"msg", "intent", "query", "df", "m", "subset", "items", "prod",
                   "top", "options", "answer"}

\* lines 166-169 read the locals query and df, assigned only at 176 and 178
debug_prints_raise ==
    \E name \in {"query", "df"} : name \in LocalsAssigned \ LocalsAtEntry

handle_message(text, cache, url, t, answer, scorer) ==
    IF debug_prints_raise
    THEN [cache |-> cache, replies |-> <<>>, exc |-> "UnboundLocalError",
          fetches |-> 0]
    ELSE handle_message_body(text, cache, url, t, answer, scorer)

\* -------------------------------------------------------------------------
\* Messages handled one after another from start-up

Texts ==
    {<<>>, <<"J", "i", "b", "o", "i", "a">>, <<"q", "u", "a", "n", "t", "o", " ", "c", "u", "s", "t", "a", " ", "a", " ", "r", "o", "s", "a", "?">>, <<"t", "e", "m", " ", "s", "a", "m", "a", "m", "b", "a", "i", "a">>, <<"z", "a", "m", "i", "o", "c", "u", "l", "c", "a">>,
     <<"m", "e", " ", "i", "n", "d", "i", "c", "a", " ", "u", "m", "a", " ", "p", "r", "a", " ", "p", "e", "t", "s">>}

\* scores for the rows of the largest sheet: none kept, one kept, two kept
\* less than 5 apart, two kept 5 or more apart
Scorers == {<<70, 70, 70>>, <<70, 80, 70>>, <<80, 78, 70>>, <<75, 70, 80>>}

InitHandle ==
    /\ SHEETS_CSV_URL \in {"", ConfiguredUrl}
    /\ CATALOG_CACHE = [df |-> None, ts |-> 0]
    /\ now \in ClockValues
    /\ call = None
    /\ NoHandler
    /\ arg = <<>> /\ res = <<>> /\ pc = "polling"

\* One inbound message handled.  answer and scorer are what the sheet's
\* server and fuzz.WRatio would give this handler if it asked.
HandleMessage ==
    \E text \in Texts, answer \in Answers, scorer \in Scorers :
        LET r == handle_message(text, CATALOG_CACHE, SHEETS_CSV_URL, now, answer, scorer)
        IN  /\ update' = Some(text)
            /\ CATALOG_CACHE' = r.cache
            /\ handled' = Some([text |-> text, at |-> now, before |-> CATALOG_CACHE,
                                answer |-> answer, scorer |-> scorer,
                                replies |-> r.replies, exc |-> r.exc])
            /\ UNCHANGED <<SHEETS_CSV_URL, now, call, arg, res, pc>>

NextHandle == ClockMoves \/ HandleMessage

SpecHandle == InitHandle /\ [][NextHandle]_vars

\* what load_catalog and find_product give for the message handled last
Resolved ==
    LET h == handled[1]
        loaded == load_catalog(h.before, SHEETS_CSV_URL, h.at, h.answer)
        df == loaded.ret[1]
    IN  [df |-> df,
         found |-> find_product(df, extract_query(h.text), head(h.scorer, Len(df)))]

CatalogAvailable ==
    load_catalog(handled[1].before, SHEETS_CSV_URL, handled[1].at,
                 handled[1].answer).exc = ""

\* C3: when the resolution of a message is ambiguous, with two or more
\* candidates whose two best scores differ by less than 5 (the all-90
\* candidates of the prefix stage included), the reply is the disambiguation
\* prompt naming the first (at most 3) candidates; neither a product answer
\* nor the not-found message is sent.
C3_AmbiguousAsks ==
    (/\ handled # None
     /\ handled[1].text # <<>>
     /\ detect_intent(handled[1].text) # "SUGGEST"
     /\ CatalogAvailable
     /\ Resolved.found.prod = 0
     /\ Len(Resolved.found.top) >= 2
     /\ Resolved.found.top[1].score - Resolved.found.top[2].score < 5) =>
        /\ Len(handled[1].replies) = 1
        /\ handled[1].replies[1].kind = "disambiguation"
        /\ handled[1].replies[1].rows =
              [k \in 1..Len(head(Resolved.found.top, 3)) |-> Resolved.found.top[k].idx]

ReplyKinds == {"product", "suggestions", "disambiguation", "not_found", "no_suggestion"}

\* C4: every message with non-empty text, in every catalog state, ends with
\* one user-facing reply of a defined shape and with no uncaught exception.
C4_AlwaysReplies ==
    (handled # None /\ handled[1].text # <<>>) =>
        /\ handled[1].exc = ""
        /\ Len(handled[1].replies) = 1
        /\ handled[1].replies[1].kind \in ReplyKinds

====
